---- MODULE Spec2Model ----
(***************************************************************************)
(* DocumentationGenerator.generate_docs_for_code_from_file and             *)
(* generate_docs_for_block_and_change_node of documentation_generator.py.  *)
(*                                                                         *)
(* Source text is a sequence of statement headers, one token per           *)
(* statement: its kind, its name and its indentation depth.  parse turns   *)
(* indentation into child lists, unparse turns child lists back into       *)
(* indentation.  The generation service is the environment: every call     *)
(* returns some text, raises RateLimitError or raises another error.       *)
(***************************************************************************)
EXTENDS Integers, Sequences, FiniteSets, TLC

\* Longest source unit, in statements.
MaxLen == 3
\* Deepest indentation of a statement of the source unit.
MaxDepth == 2
\* Most passes through generate_docs_for_block_and_change_node for one node.
MaxAttempts == 3

Kinds == {"ClassDef", "FunctionDef", "If"}

Ids(n) == [i \in 1..n |-> i]

Range(s) == {s[i] : i \in 1..Len(s)}

\* The source units: statement i is named i.
Texts ==
  UNION {{[i \in 1..n |-> [kind |-> k[i], name |-> i, depth |-> d[i]]] :
            k \in [1..n -> Kinds], d \in [1..n -> 0..MaxDepth]} : n \in 0..MaxLen}

(***************************************************************************)
(* astcom.parse / astcom.unparse / ast.unparse                             *)
(***************************************************************************)

\* The text is syntactically valid: it starts at the left margin and a
\* statement is indented at most one level deeper than the one before it.
Parses(t) ==
  \/ Len(t) = 0
  \/ /\ t[1].depth = 0
     /\ \A i \in 2..Len(t) : t[i].depth <= t[i-1].depth + 1

ChildrenAt(t, i) ==
  SelectSeq(Ids(Len(t)),
            LAMBDA j : /\ j > i
                       /\ t[j].depth = t[i].depth + 1
                       /\ \A k \in (i+1)..(j-1) : t[k].depth > t[i].depth)

\* The Module node of a valid text: its nodes in source order, the child list
\* of each, and the module body (the statements at the left margin).
parse(t) ==
  [kind     |-> [i \in 1..Len(t) |-> t[i].kind],
   name     |-> [i \in 1..Len(t) |-> t[i].name],
   children |-> [i \in 1..Len(t) |-> ChildrenAt(t, i)],
   body     |-> SelectSeq(Ids(Len(t)), LAMBDA j : t[j].depth = 0)]

NoTree == parse(<<>>)

RECURSIVE unparseNodes(_, _, _)
\* The text of the statements ids of tree T, written at depth d.
unparseNodes(T, ids, d) ==
  IF ids = <<>> THEN <<>>
  ELSE LET i == Head(ids) IN
       <<[kind |-> T.kind[i], name |-> T.name[i], depth |-> d]>>
         \o unparseNodes(T, T.children[i], d + 1)
         \o unparseNodes(T, Tail(ids), d)

\* A Module node writes its body at the current depth, with no header.
unparseModule(T) == unparseNodes(T, T.body, 0)

VARIABLES
  file,            \* the persisted source unit at file_path
  original,        \* the content of the file when the run started
  tree,            \* the nodes astcom.parse built for the source unit
  parent,          \* the .parent attribute of each node of tree
  body,            \* tree.body, the list the splices assign into
  todo,            \* the deque of ast.walk in the selection loop
  cur,             \* node of the current generate_docs_for_block_and_change_node
  pc,              \* position of the run
  error,           \* the exception that ended the run, "" if none
  log,             \* calls of generate_docs made for cur: text sent, outcome
  code_with_docs,  \* the reply in hand
  diags,           \* 'Syntax error' diagnostics emitted for cur
  cooldowns,       \* time.sleep(21) calls made for cur
  writes,          \* times the file was written
  requested,       \* nodes for which generate_docs was called
  spliced          \* nodes whose slot of tree.body was assigned

vars == <<file, original, tree, parent, body, todo, cur, pc, error, log,
          code_with_docs, diags, cooldowns, writes, requested, spliced>>

NumNodes == Len(tree.kind)

\* A slot of tree.body: a node of the tree, or the Module parsed from a reply.
\* The parent field of a Module slot lists the .parent attributes of the nodes
\* of the reply: astcom.parse sets none and nothing sets one afterwards.
NodeSlot(i) == [id |-> i, mod |-> NoTree, parent |-> <<>>]
ModuleSlot(i, m) == [id |-> i, mod |-> m, parent |-> <<>>]

IsReplaced(slot) == slot.id > NumNodes

Kind(i) == IF i = 0 \/ i > NumNodes THEN "Module" ELSE tree.kind[i]

\* ast.iter_child_nodes
ChildNodes(i) ==
  IF i = 0 THEN [k \in 1..Len(body) |-> body[k].id]
  ELSE IF i <= NumNodes THEN tree.children[i]
  ELSE <<>>

\* The annotation loop: child.parent = node for every node of the walk.
Annotate(T) ==
  [i \in 1..Len(T.kind) |->
     IF \E p \in 1..Len(T.kind) : i \in Range(T.children[p])
     THEN CHOOSE p \in 1..Len(T.kind) : i \in Range(T.children[p])
     ELSE 0]

is_method(function_node) == Kind(parent[function_node]) = "ClassDef"

\* The two branches of the selection loop that call
\* generate_docs_for_block_and_change_node.
IsSelected(node) ==
  \/ Kind(node) = "ClassDef"
  \/ Kind(node) = "FunctionDef" /\ ~is_method(node)

\* ast.unparse(node)
unparse(node) == unparseNodes(tree, <<node>>, 0)

\* astcom.unparse(tree): the slots of the body in order, each at depth 0.
RECURSIVE unparseBody(_)
unparseBody(b) ==
  IF b = <<>> THEN <<>>
  ELSE (IF IsReplaced(Head(b)) THEN unparseModule(Head(b).mod)
        ELSE unparse(Head(b).id))
       \o unparseBody(Tail(b))

\* A lookup that ignores which node is asked for.
indexFirst(b, node) ==
  IF \E k \in 1..Len(b) : b[k].id = node THEN 1 ELSE 0

\* tree.body.index(node): 0 stands for ValueError.
index(b, node) ==
  IF \E k \in 1..Len(b) : b[k].id = node
  THEN CHOOSE k \in 1..Len(b) : b[k].id = node /\ \A j \in 1..(k-1) : b[j].id # node
  ELSE 0

\* tree.body.insert(old_node_index, value): the old node stays, shifted.
SetItemInsert(b, old_node_index, value) ==
  SubSeq(b, 1, old_node_index - 1) \o <<value>> \o SubSeq(b, old_node_index, Len(b))

\* tree.body[old_node_index] = value
SetItem(b, old_node_index, value) == [b EXCEPT ![old_node_index] = value]

(***************************************************************************)
(* The generation service                                                  *)
(***************************************************************************)

Extra(d) == [kind |-> "If", name |-> 0, depth |-> d]

OtherKind(k) == IF k = "ClassDef" THEN "FunctionDef" ELSE "ClassDef"

\* Texts the service may answer for the entity text t: t itself, nothing,
\* t followed by another statement, a definition of the other kind, and a
\* text that is not valid syntax.
Replies(t) ==
  {t,
   <<>>,
   t \o <<Extra(0)>>,
   <<[kind |-> OtherKind(t[1].kind), name |-> t[1].name, depth |-> 0]>>,
   <<t[1], Extra(2)>>}

\* self.generate_docs(code): returns a text or raises.
generate_docs(code) ==
  {[type |-> "text", text |-> r] : r \in Replies(code)}
    \cup {[type |-> "RateLimitError", text |-> <<>>],
          [type |-> "ServiceError", text |-> <<>>]}

(***************************************************************************)
(* The run                                                                 *)
(***************************************************************************)

Init ==
  /\ file \in Texts
  /\ original = file
  /\ tree = NoTree
  /\ parent = <<>>
  /\ body = <<>>
  /\ todo = <<>>
  /\ cur = 0
  /\ pc = "start"
  /\ error = ""
  /\ log = <<>>
  /\ code_with_docs = <<>>
  /\ diags = 0
  /\ cooldowns = 0
  /\ writes = 0
  /\ requested = {}
  /\ spliced = {}

\* Read the file, parse it, annotate the parents, start the selection walk.
ReadAndParse ==
  /\ pc = "start"
  /\ IF Parses(file)
     THEN /\ tree' = parse(file)
          /\ parent' = Annotate(parse(file))
          /\ body' = [k \in 1..Len(parse(file).body) |-> NodeSlot(parse(file).body[k])]
          /\ todo' = <<0>>
          /\ pc' = "walk"
          /\ error' = error
     ELSE /\ pc' = "fatal"
          /\ error' = "SyntaxError"
          /\ UNCHANGED <<tree, parent, body, todo>>
  /\ UNCHANGED <<file, original, cur, log, code_with_docs, diags, cooldowns,
                 writes, requested, spliced>>

\* A traversal that starts again from the root after a selected node.
walkRestart(t, node) ==
  IF IsSelected(node) THEN <<0>> ELSE Tail(t) \o ChildNodes(node)

\* ast.walk: node = todo.popleft(); todo.extend(iter_child_nodes(node)).
walk(t, node) == Tail(t) \o ChildNodes(node)

\* One iteration of 'for node in ast.walk(tree)': the walk pops the node and
\* queues its children, the loop body selects it or passes.
WalkNext ==
  /\ pc = "walk"
  /\ todo # <<>>
  /\ LET node == Head(todo) IN
       /\ todo' = walk(todo, node)
       /\ IF IsSelected(node)
          THEN /\ cur' = node
               /\ log' = <<>>
               /\ diags' = 0
               /\ cooldowns' = 0
               /\ pc' = "request"
          ELSE UNCHANGED <<cur, log, diags, cooldowns, pc>>
  /\ UNCHANGED <<file, original, tree, parent, body, error, code_with_docs,
                 writes, requested, spliced>>

\* A handler that catches RateLimitError once per node, not once per pass.
AfterRequestNoRenewal(type) ==
  IF type = "text" THEN "validate"
  ELSE IF type = "RateLimitError" /\ cooldowns = 0 THEN "cooldown"
  ELSE "fatal"

\* Where the first call of a pass leads.
AfterRequest(type) ==
  IF type = "text" THEN "validate"
  ELSE IF type = "RateLimitError" THEN "cooldown"
  ELSE "fatal"

\* A handler that would catch RateLimitError again and wait once more.
AfterResubmitRetries(type) ==
  IF type = "text" THEN "validate"
  ELSE IF type = "RateLimitError" THEN "cooldown"
  ELSE "fatal"

\* Where the call in the except handler leads: nothing catches there.
AfterResubmit(type) ==
  IF type = "text" THEN "validate" ELSE "fatal"

\* code_with_docs = self.generate_docs(ast.unparse(node)) in the try block.
Request ==
  /\ pc = "request"
  /\ diags < MaxAttempts
  /\ \E o \in generate_docs(unparse(cur)) :
       /\ log' = Append(log, [sent |-> unparse(cur), type |-> o.type, text |-> o.text])
       /\ code_with_docs' = IF o.type = "text" THEN o.text ELSE code_with_docs
       /\ pc' = AfterRequest(o.type)
       /\ error' = IF AfterRequest(o.type) = "fatal" THEN o.type ELSE error
  /\ requested' = requested \cup {cur}
  /\ UNCHANGED <<file, original, tree, parent, body, todo, cur, diags,
                 cooldowns, writes, spliced>>

\* except RateLimitError: print the notice and time.sleep(21).
Cooldown ==
  /\ pc = "cooldown"
  /\ cooldowns' = cooldowns + 1
  /\ pc' = "resubmit"
  /\ UNCHANGED <<file, original, tree, parent, body, todo, cur, error, log,
                 code_with_docs, diags, writes, requested, spliced>>

\* code_with_docs = self.generate_docs(ast.unparse(node)) in the handler.
Resubmit ==
  /\ pc = "resubmit"
  /\ \E o \in generate_docs(unparse(cur)) :
       /\ log' = Append(log, [sent |-> unparse(cur), type |-> o.type, text |-> o.text])
       /\ code_with_docs' = IF o.type = "text" THEN o.text ELSE code_with_docs
       /\ pc' = AfterResubmit(o.type)
       /\ error' = IF AfterResubmit(o.type) = "fatal" THEN o.type ELSE error
  /\ UNCHANGED <<file, original, tree, parent, body, todo, cur, diags,
                 cooldowns, writes, requested, spliced>>

\* tree.body.index(node) raised ValueError: nothing catches it.
LookupFails ==
  /\ pc' = "fatal"
  /\ error' = "ValueError"
  /\ UNCHANGED <<body, diags, spliced>>

\* tree.body[old_node_index] = astcom.parse(result), the parse succeeding.
SpliceReply(old_node_index) ==
  /\ body' = SetItem(body, old_node_index,
                     ModuleSlot(NumNodes + cur, parse(code_with_docs)))
  /\ spliced' = spliced \cup {cur}
  /\ pc' = "walk"
  /\ UNCHANGED <<error, diags>>

\* A handler that reports the syntax error and goes on to the next node.
SyntaxErrorGivesUp(old_node_index) ==
  /\ diags' = diags + 1
  /\ pc' = "walk"
  /\ UNCHANGED <<body, error, spliced>>

\* A store that happens although the parse raised: the slot is emptied.
SyntaxErrorClearsSlot(old_node_index) ==
  /\ diags' = diags + 1
  /\ pc' = "request"
  /\ body' = SetItem(body, old_node_index, ModuleSlot(NumNodes + cur, NoTree))
  /\ UNCHANGED <<error, spliced>>

\* except SyntaxError: astcom.parse raised before the store, the two
\* diagnostics are printed and the function calls itself for the same node.
SyntaxErrorRetry(old_node_index) ==
  /\ diags' = diags + 1
  /\ pc' = "request"
  /\ UNCHANGED <<body, error, spliced>>

\* old_node_index = tree.body.index(node), then the assignment of the parsed
\* reply to the slot, or on SyntaxError the diagnostics and the recursive call.
Validate ==
  /\ pc = "validate"
  /\ LET old_node_index == index(body, cur) IN
       IF old_node_index = 0 THEN LookupFails
       ELSE IF Parses(code_with_docs) THEN SpliceReply(old_node_index)
       ELSE SyntaxErrorRetry(old_node_index)
  /\ UNCHANGED <<file, original, tree, parent, todo, cur, log, code_with_docs,
                 cooldowns, writes, requested>>

\* A write that does not wait for the loop.
LoopFinishedEarly == TRUE

\* The for loop over ast.walk(tree) is exhausted.
LoopFinished == todo = <<>>

\* new_source_code = astcom.unparse(tree); the file is overwritten with it.
WriteBack ==
  /\ pc = "walk"
  /\ LoopFinished
  /\ file' = unparseBody(body)
  /\ writes' = writes + 1
  /\ pc' = "done"
  /\ UNCHANGED <<original, tree, parent, body, todo, cur, error, log,
                 code_with_docs, diags, cooldowns, requested, spliced>>

Next ==
  \/ ReadAndParse
  \/ WalkNext
  \/ Request
  \/ Cooldown
  \/ Resubmit
  \/ Validate
  \/ WriteBack

Spec == Init /\ [][Next]_vars

(***************************************************************************)
(* Properties                                                              *)
(***************************************************************************)

RateLimited(e) == e.type = "RateLimitError"

ParseableReply(e) == e.type = "text" /\ Parses(e.text)

\* The call of generate_docs_for_block_and_change_node for cur has returned
\* or raised.
EntityEnded == cur # 0 /\ pc \in {"walk", "done", "fatal"}

\* The run is over and no call of the generation service raised.
RunEndedWithoutServiceFailure ==
  pc = "done" \/ (pc = "fatal" /\ error = "ValueError")

SelectedEntities == {i \in 1..NumNodes : IsSelected(i)}

\* Kind and name of the top-level statements of a module, in order.
TopLevel(T) == [k \in 1..Len(T.body) |-> <<T.kind[T.body[k]], T.name[T.body[k]]>>]

BodyKeepsShape ==
  /\ Len(body) = Len(tree.body)
  /\ \A k \in 1..Len(tree.body) :
       tree.body[k] \notin spliced => body[k] = NodeSlot(tree.body[k])

OneSlotPerSplice ==
  (pc # "start" /\ body' # body) =>
     /\ Len(body') = Len(body)
     /\ Cardinality({k \in 1..Len(body) : body'[k] # body[k]}) = 1

\* C1: the module body keeps its length N throughout the run and every
\* top-level statement that was not spliced is the same node at the same
\* index; each splice changes exactly one slot and shifts no other statement.
C1_OrderPreservation == []BodyKeepsShape /\ [][OneSlotPerSplice]_vars

\* A finished run that spliced an entity and left another statement alone.
C1_Witness ==
  /\ pc = "done"
  /\ spliced # {}
  /\ \E k \in 1..Len(tree.body) : tree.body[k] \notin spliced
  /\ \E k \in 1..Len(tree.body) : k > 1 /\ tree.body[k] \in spliced

\* C2: once the run is over without a failure of the generation service, a
\* generation request was issued for every class definition at every depth,
\* and no request is ever issued for a function whose parent is a class.
C2_EveryClassSelected ==
  /\ RunEndedWithoutServiceFailure =>
       \A i \in 1..NumNodes : Kind(i) = "ClassDef" => i \in requested
  /\ \A i \in requested :
       ~(Kind(i) = "FunctionDef" /\ Kind(parent[i]) = "ClassDef")

\* C3: a function definition is selected if and only if its parent is the
\* module root: every requested function is a top-level statement, and a
\* finished run has requested every top-level function.
C3_FunctionSelectedIffTopLevel ==
  /\ \A i \in requested : Kind(i) = "FunctionDef" => parent[i] = 0
  /\ pc = "done" =>
       \A i \in 1..NumNodes :
         (Kind(i) = "FunctionDef" /\ parent[i] = 0) => i \in requested

\* C4: when the replies for one entity fail to parse on attempts 1..K-1 and
\* the reply of attempt K parses, with no error raised, the engine has made
\* exactly K generation calls, emitted K-1 diagnostics and spliced the entity.
C4_RetryCount ==
  \A K \in 1..MaxAttempts :
    ( /\ EntityEnded
      /\ Len(log) >= K
      /\ \A j \in 1..Len(log) : log[j].type = "text"
      /\ \A j \in 1..(K-1) : ~Parses(log[j].text)
      /\ Parses(log[K].text) )
    => /\ Len(log) = K
       /\ diags = K - 1
       /\ cur \in spliced

\* C5: when the first call for an entity raises RateLimitError and the
\* resubmission returns parseable text, there was exactly one cooldown, then
\* exactly one resubmission of the same entity text, and the entity is spliced.
C5_SingleRateLimitRetry ==
  /\ (Len(log) = 1 /\ RateLimited(log[1])) => pc \in {"cooldown", "resubmit"}
  /\ ( /\ EntityEnded
       /\ Len(log) = 2
       /\ RateLimited(log[1])
       /\ ParseableReply(log[2]) )
     => /\ cooldowns = 1
        /\ log[2].sent = log[1].sent
        /\ cur \in spliced

EndsRateLimitedTwice ==
  /\ Len(log) >= 2
  /\ RateLimited(log[Len(log)])
  /\ RateLimited(log[Len(log) - 1])

\* C6: when the call for an entity raises RateLimitError and the resubmission
\* raises it again, the run is in a fatal error with the slot of that entity
\* unmodified, and nothing happens afterwards: no further generation call and
\* no further entity.
C6_SecondRateLimitFatal ==
  /\ [](EndsRateLimitedTwice =>
          /\ pc = "fatal"
          /\ error = "RateLimitError"
          /\ cur \notin spliced
          /\ \A k \in 1..Len(tree.body) :
               tree.body[k] = cur => body[k] = NodeSlot(cur))
  /\ [][~EndsRateLimitedTwice]_vars

\* Two RateLimitErrors in a row with an entity spliced before and nodes left
\* to walk.
C6_Witness ==
  /\ EndsRateLimitedTwice
  /\ pc = "fatal"
  /\ spliced # {}
  /\ todo # <<>>

\* C7: after a successful run the written text parses again and has as many
\* top-level statements as the mutated tree and as the original source unit,
\* whatever parseable replies were spliced.
C7_ReparseSameCount ==
  pc = "done" =>
    /\ Parses(file)
    /\ Len(parse(file).body) = Len(body)
    /\ Len(body) = Len(parse(original).body)

\* C8: a slot holds a spliced reply only if the reply parsed to exactly one
\* statement of the same kind as the entity it replaces.
C8_OnlySameKindUnitSpliced ==
  \A k \in 1..Len(body) :
    IsReplaced(body[k]) =>
      /\ Len(body[k].mod.body) = 1
      /\ body[k].mod.kind[body[k].mod.body[1]] = Kind(tree.body[k])

\* The reply spliced into slot k is the text of its entity, unchanged.
EchoedSlot(k) ==
  unparseModule(body[k].mod) = unparse(body[k].id - NumNodes)

AllEchoed == \A k \in 1..Len(body) : IsReplaced(body[k]) => EchoedSlot(k)

\* C9: when every spliced reply was the entity's own text, the written text
\* parses to a module with the same top-level statements, in the same order,
\* as the original source unit.
C9_EchoRoundTrip ==
  (pc = "done" /\ AllEchoed) =>
    /\ Parses(file)
    /\ TopLevel(parse(file)) = TopLevel(tree)

\* def foo, class Bar with method baz.
FooBar ==
  <<[kind |-> "FunctionDef", name |-> 1, depth |-> 0],
    [kind |-> "ClassDef", name |-> 2, depth |-> 0],
    [kind |-> "FunctionDef", name |-> 3, depth |-> 1]>>

\* The foo / Bar unit, both entities spliced with their own text.
C9_Witness ==
  /\ pc = "done"
  /\ original = FooBar
  /\ spliced = {1, 2}
  /\ AllEchoed

\* C10: the file is written at most once, only when the run is done with
\* every selected entity spliced; until then, and in every fatal end, the
\* file holds the original text.
C10_WriteOnceAtEnd ==
  /\ writes <= 1
  /\ writes = 0 => file = original
  /\ writes = 1 => (pc = "done" /\ SelectedEntities \subseteq spliced)
  /\ pc = "fatal" => (writes = 0 /\ file = original)

\* A fatal end after an entity was already spliced in the in-memory tree.
C10_Witness ==
  /\ pc = "fatal"
  /\ spliced # {}
  /\ \E k \in 1..Len(body) : IsReplaced(body[k])
  /\ file = original

LastCall == log[Len(log)]

\* C11: the lookup of a selected entity in the module body never fails, and
\* once the reply for an entity has parsed the entity is spliced, whether it
\* is a module-level statement or a class nested in a class or a function.
C11_LookupNeverFails ==
  /\ error # "ValueError"
  /\ (EntityEnded /\ log # <<>> /\ ParseableReply(LastCall)) => cur \in spliced

\* No call of the generation service ended the run.
NoServiceFailure == error \notin {"RateLimitError", "ServiceError"}

\* The generator has answered unparseable text for as long as the bound on
\* the passes allows.
RetriesExhausted == pc = "request" /\ diags = MaxAttempts

\* C12: a run on a parseable source unit that no generator error stopped ends
\* with every selected entity spliced and the rendered text written, and a
\* run that has not ended can always take a step (unless the generator keeps
\* answering unparseable text).
C12_RunCompletes ==
  /\ (pc \in {"done", "fatal"} /\ Parses(original) /\ NoServiceFailure) =>
       /\ pc = "done"
       /\ SelectedEntities \subseteq spliced
       /\ writes = 1
       /\ file = unparseBody(body)
  /\ (pc \notin {"done", "fatal"} /\ ~RetriesExhausted) => ENABLED Next

InsideEntity == pc \in {"request", "cooldown", "resubmit", "validate"}

\* C13: entities are processed one at a time: every entity for which a
\* request was issued, other than the current one, has been spliced, and
\* while the current one is not spliced the run stays in its passes (requests,
\* cooldown, resubmission, validation) or has ended in a fatal error.
C13_OneAtATime ==
  /\ \A i \in requested : i # cur => i \in spliced
  /\ (cur \in requested /\ cur \notin spliced) => (InsideEntity \/ pc = "fatal")

\* A later entity in its second pass, after a cooldown, with an earlier
\* entity spliced.
C13_Witness ==
  /\ pc = "validate"
  /\ diags > 0
  /\ cooldowns > 0
  /\ spliced # {}
  /\ cur \notin spliced

\* C14: entities are submitted in source order (nodes are numbered in source
\* order): when a request has been issued for B, one has been issued for
\* every selected entity A that begins before B in the source text.
C14_RequestsInSourceOrder ==
  \A B \in requested :
    \A A \in SelectedEntities : A < B => A \in requested

\* C15: every non-root node carries the annotation of its immediate parent:
\* the nodes of the parsed source unit, and after a splice also the nodes of
\* the replacement subtree.
C15_ParentsRecomputed ==
  /\ \A i \in 1..NumNodes : parent[i] = Annotate(tree)[i]
  /\ \A k \in 1..Len(body) :
       IsReplaced(body[k]) => body[k].parent = Annotate(body[k].mod)

\* The step of the except SyntaxError branch: from validation back to a request.
ParseFailureStep == pc = "validate" /\ pc' = "request"

\* The slot of the original position of cur still holds cur itself.
CurInPlace ==
  \E k \in 1..Len(body) : tree.body[k] = cur /\ body[k] = NodeSlot(cur)

\* C16: a reply that does not parse leaves the tree unchanged: the step keeps
\* every slot of the body and the current node, so the restarted pass finds
\* the entity in its original slot and every call for the entity has sent the
\* same text.
C16_ParseFailureKeepsTree ==
  /\ [][ParseFailureStep => (body' = body /\ tree' = tree /\ cur' = cur)]_vars
  /\ []((InsideEntity /\ diags > 0) => CurInPlace)
  /\ [](\A j \in 1..Len(log) : log[j].sent = unparse(cur))

\* A second parse failure for an entity, with another entity spliced before.
C16_Witness ==
  /\ pc = "request"
  /\ diags = 2
  /\ spliced # {}
  /\ CurInPlace

ReplacedSlots == {k \in 1..Len(body) : IsReplaced(body[k])}

\* C17: the traversal holds only nodes of the originally parsed tree, an
\* entity under processing has not been spliced before, and a run that
\* completes has spliced exactly the entities selected from the original
\* tree, one slot for each.
C17_ReplacementNeverSelected ==
  /\ \A j \in 1..Len(todo) : todo[j] <= NumNodes
  /\ InsideEntity => (cur \in 1..NumNodes /\ cur \notin spliced)
  /\ pc = "done" =>
       /\ spliced = SelectedEntities
       /\ Cardinality(ReplacedSlots) = Cardinality(SelectedEntities)

\* A completed run with two entities spliced, one replacement holding a
\* definition with a definition nested in it.
C17_Witness ==
  /\ pc = "done"
  /\ Cardinality(spliced) = 2
  /\ \E k \in ReplacedSlots :
       /\ Len(body[k].mod.kind) >= 2
       /\ body[k].mod.kind[2] \in {"ClassDef", "FunctionDef"}

TextCalls == {j \in 1..Len(log) : log[j].type = "text"}

\* The call that ended the last failed pass for cur: the reply that drew the
\* latest diagnostic; 0 in the first pass.
LastFailedCall ==
  IF diags = 0 THEN 0
  ELSE CHOOSE j \in TextCalls : Cardinality({i \in TextCalls : i <= j}) = diags

CallsInPass == Len(log) - LastFailedCall

CooldownsInPass ==
  cooldowns - Cardinality({j \in 1..LastFailedCall : RateLimited(log[j])})

\* C18: one pass for an entity makes at most two generation calls and one
\* cooldown; a RateLimitError that does not directly follow another one
\* (the first call of any pass, also after a parse-failure restart) is caught
\* and leads to a cooldown and a resubmission, and a run ends with
\* RateLimitError only after two of them in direct succession.
C18_AllowancePerPass ==
  /\ CallsInPass <= 2
  /\ CooldownsInPass <= 1
  /\ ( /\ log # <<>>
       /\ RateLimited(LastCall)
       /\ (Len(log) = 1 \/ ~RateLimited(log[Len(log) - 1])) )
     => pc \in {"cooldown", "resubmit"}
  /\ (pc = "fatal" /\ error = "RateLimitError") => EndsRateLimitedTwice

\* RateLimitError, an unparseable reply, RateLimitError again, then a reply
\* that parses: two cooldowns for one entity, which is spliced.
C18_Witness ==
  /\ Len(log) = 4
  /\ RateLimited(log[1])
  /\ RateLimited(log[3])
  /\ cooldowns = 2
  /\ diags = 1
  /\ cur \in spliced

====
